---- MODULE Spec2Model ----
(***************************************************************************)
(* Model of backend_wallet_api.py: the in-memory wallet backend.           *)
(*                                                                         *)
(* Money.  The program keeps balances and amounts as Python floats and     *)
(* rounds a balance to 2 decimals after every mutation.  The model counts  *)
(* money in thousandths of a rupee (1000 = 1.00), so that an amount finer  *)
(* than a paisa is representable and round(x, 2) is a real conversion      *)
(* (Round2), not the identity.  Request amounts are chosen so that no      *)
(* rounding tie (a 5 in the thousandths place) occurs: on a tie the float  *)
(* result depends on the binary representation of the operand.             *)
(*                                                                         *)
(* References.  A Python reference to a user dict (current_user, user) is  *)
(* modelled by the index of the record in users_db; the list is only ever  *)
(* appended to, so an index keeps denoting the same dict.  None is 0.      *)
(*                                                                         *)
(* Left out of the records: timestamp and description, which no handler    *)
(* reads back.                                                             *)
(***************************************************************************)
EXTENDS Integers, Sequences, FiniteSets, TLC

\* ------------------------------------------------------------ constants

INITIAL_BALANCE == 100000

HTTP_200_OK == 200
HTTP_201_CREATED == 201
HTTP_400_BAD_REQUEST == 400
HTTP_401_UNAUTHORIZED == 401
HTTP_404_NOT_FOUND == 404

\* None, for an Optional[int] and for a reference that is None.
None == 0

\* payload.get("sub") of a token that carries no "sub" claim
NoSub == "<none>"

\* ------------------------------------------------------------ bounds

\* Requests are issued while the ledger holds fewer than MaxTx entries.
MaxTx == 4

\* Requests started in the threaded specification.
MaxReqs == 3

\* Requests started in the small threaded specification.
MaxStepReqs == 2

\* ------------------------------------------------------------ inputs

Usernames == {"alice", "bob"}

Passwords == {"secret1"}

\* Passwords tried at login: the registered one and one never registered.
LoginPasswords == Passwords \cup {"wrong-password"}

\* SpendRequest.amount values (gt = 0): 0.004 and 0.006 are finer than a
\* paisa, 50.00 is half the initial grant and 100.00 all of it.
Amounts == {4, 6, 50000, 100000}

\* Handler threads of the worker pool.
Threads == {1, 2}

\* Path parameter item_id: the five seeded ids and one unknown id.
ItemIds == {1, 2, 3, 4, 5, 999}

\* Bearer tokens a client can present.  valid = FALSE stands for a token
\* jwt.decode rejects (malformed, expired, wrong signature).  A valid token
\* may name a user the lists do not hold: the lists live in memory and start
\* empty, while a token signed with SECRET_KEY stays valid for 30 minutes.
Tokens ==
    {[sub |-> s, valid |-> TRUE] : s \in Usernames \cup {NoSub}}
        \cup {[sub |-> NoSub, valid |-> FALSE]}

\* ------------------------------------------------------------ state

VARIABLES
    users_db,          \* list of [id, username, hashed_password, balance]
    items_db,          \* list of [id, name, price]
    transactions_db,   \* list of [id, user_id, type, amount, item_id]
    resp,              \* the response of the last request served one at a time
    thr,               \* per handler thread: position and locals
    nreq               \* requests started by handler threads

vars == <<users_db, items_db, transactions_db, resp, thr, nreq>>

stores == <<users_db, items_db, transactions_db>>

\* ------------------------------------------------------------ helpers

SetMax(S) == CHOOSE x \in S : \A y \in S : y <= x

SetMin(S) == CHOOSE x \in S : \A y \in S : x <= y

\* The next id is the largest id in use, not the one after it.
get_next_id_NoIncrement(db) ==
    IF db = <<>> THEN 1
    ELSE SetMax({db[i].id : i \in DOMAIN db})

get_next_id(db) ==
    IF db = <<>> THEN 1
    ELSE SetMax({db[i].id : i \in DOMAIN db}) + 1

seed_data ==
    << [id |-> 1, name |-> "The Great Gatsby (Book)", price |-> 50000],
       [id |-> 2, name |-> "Coffee Mug", price |-> 25500],
       [id |-> 3, name |-> "Notebook (Premium)", price |-> 10000],
       [id |-> 4, name |-> "Mystery Box (Low Risk)", price |-> 49990],
       [id |-> 5, name |-> "Pen Set (Ballpoint)", price |-> 15000] >>

\* pwd_context.hash / pwd_context.verify: the hash is opaque and verifies
\* exactly the password it was made from.
get_password_hash(password) == <<"bcrypt", password>>

\* Every password is accepted.
verify_password_AcceptsAll(plain_password, hashed_password) == TRUE

verify_password(plain_password, hashed_password) ==
    hashed_password = get_password_hash(plain_password)

\* The scan starts at the second record (users_db[1:]).
get_user_SkipsFirst(db, username) ==
    LET S == {i \in DOMAIN db \ {1} : db[i].username = username}
    IN  IF S = {} THEN None ELSE SetMin(S)

\* next((user for user in users_db if ...), None): the first match.
get_user(db, username) ==
    LET S == {i \in DOMAIN db : db[i].username = username}
    IN  IF S = {} THEN None ELSE SetMin(S)

get_user_by_id(db, user_id) ==
    LET S == {i \in DOMAIN db : db[i].id = user_id}
    IN  IF S = {} THEN None ELSE SetMin(S)

\* The item is taken by its position in the list, items_db[item_id], which
\* Python counts from 0.
find_item_ByListIndex(db, item_id) ==
    IF item_id + 1 \in DOMAIN db THEN item_id + 1 ELSE None

\* next((i for i in items_db if i["id"] == item_id), None)
find_item(db, item_id) ==
    LET S == {i \in DOMAIN db : db[i].id = item_id}
    IN  IF S = {} THEN None ELSE SetMin(S)

\* round(x, 2) on thousandths: to the nearest multiple of 10.  A tie goes
\* to the even hundredth (the modelled inputs produce none).
Round2(x) ==
    LET r == x % 10
        lo == x - r
    IN  IF r < 5 THEN lo
        ELSE IF r > 5 THEN lo + 10
        ELSE IF (lo \div 10) % 2 = 0 THEN lo ELSE lo + 10

\* The check compares the balance with zero and forgets the amount.
InsufficientFunds_IgnoresAmount(balance, amount) == balance < 0

\* The check also refuses a debit of the whole balance.
InsufficientFunds_RejectsEqual(balance, amount) == balance <= amount

\* user['balance'] < amount
InsufficientFunds(balance, amount) == balance < amount

\* Both operations add the amount.
ApplyOperation_AlwaysAdds(balance, amount, operation) == balance + amount

\* user['balance'] -= amount  /  user['balance'] += amount
ApplyOperation(balance, amount, operation) ==
    IF operation = "SUBTRACT" THEN balance - amount
    ELSE IF operation = "ADD" THEN balance + amount
    ELSE balance

\* The transaction id of a new ledger entry.
NewTransactionId(tx) == get_next_id(tx)

\* The id of a new user record.
NewUserId(db) == get_next_id(db)

\* The item id is not passed on to the entry.
NewTransaction_NoItem(transaction_id, user_id, amount, type, item_id) ==
    [id |-> transaction_id, user_id |-> user_id, type |-> type,
     amount |-> amount, item_id |-> None]

\* The entry is filed under the transaction id instead of the user id.
NewTransaction_WrongUser(transaction_id, user_id, amount, type, item_id) ==
    [id |-> transaction_id, user_id |-> transaction_id, type |-> type,
     amount |-> amount, item_id |-> item_id]

NewTransaction(transaction_id, user_id, amount, type, item_id) ==
    [id |-> transaction_id, user_id |-> user_id, type |-> type,
     amount |-> amount, item_id |-> item_id]

\* The entry is put at the head of the list (insert(0, ...)).
LedgerAppend_AtHead(tx, new_transaction) == <<new_transaction>> \o tx

\* transactions_db.append(new_transaction)
LedgerAppend(tx, new_transaction) == Append(tx, new_transaction)

\* record_transaction run without interruption: the ledger after the call.
record_transaction(tx, user_id, amount, type, item_id) ==
    LedgerAppend(tx, NewTransaction(NewTransactionId(tx), user_id, amount, type, item_id))

\* The new user starts with an empty wallet.
NewUser_NoGrant(user_id, username, password) ==
    [id |-> user_id, username |-> username,
     hashed_password |-> get_password_hash(password),
     balance |-> 0]

NewUser(user_id, username, password) ==
    [id |-> user_id, username |-> username,
     hashed_password |-> get_password_hash(password),
     balance |-> INITIAL_BALANCE]

\* The balance is debited before the sufficient-funds check, and the
\* HTTPException leaves the debit in place.
update_user_balance_DebitsBeforeCheck(db, user_id, amount, operation) ==
    LET u == get_user_by_id(db, user_id)
    IN  IF u = None
        THEN [status |-> HTTP_404_NOT_FOUND, db |-> db, balance |-> 0]
        ELSE LET nb == Round2(ApplyOperation(db[u].balance, amount, operation))
                 after == [db EXCEPT ![u].balance = nb]
             IN  IF operation = "SUBTRACT" /\ nb < 0
                 THEN [status |-> HTTP_400_BAD_REQUEST, db |-> after, balance |-> 0]
                 ELSE [status |-> HTTP_200_OK, db |-> after, balance |-> nb]

\* update_user_balance run without interruption: the status it ends with
\* (200, or the HTTPException's), users_db after it and the value returned.
update_user_balance(db, user_id, amount, operation) ==
    LET u == get_user_by_id(db, user_id)
    IN  IF u = None
        THEN [status |-> HTTP_404_NOT_FOUND, db |-> db, balance |-> 0]
        ELSE IF operation = "SUBTRACT" /\ InsufficientFunds(db[u].balance, amount)
        THEN [status |-> HTTP_400_BAD_REQUEST, db |-> db, balance |-> 0]
        ELSE LET nb == Round2(ApplyOperation(db[u].balance, amount, operation))
             IN  [status |-> HTTP_200_OK,
                  db |-> [db EXCEPT ![u].balance = nb],
                  balance |-> nb]

\* get_current_user: the index of the authenticated user, or None when the
\* dependency raises credentials_exception (401).
get_current_user(db, token) ==
    IF ~token.valid \/ token.sub = NoSub THEN None
    ELSE get_user(db, token.sub)

\* credentials_exception, built at lines 202-206 and raised at lines 211,
\* 214 and 218.
credentials_exception ==
    [status |-> HTTP_401_UNAUTHORIZED, detail |-> "Could not validate credentials"]

\* No exception: the dependency returns the user.
no_exception == [status |-> HTTP_200_OK, detail |-> ""]

\* A claimed username that resolves to no user is answered 404.
AuthFailure_UserNotFound(db, token) ==
    IF ~token.valid THEN credentials_exception
    ELSE IF token.sub = NoSub THEN credentials_exception
    ELSE IF get_user(db, token.sub) = None
    THEN [status |-> HTTP_404_NOT_FOUND, detail |-> "User not found"]
    ELSE no_exception

\* The exception get_current_user raises for this token: on a JWTError
\* (line 214), on a missing "sub" (line 211), on an unknown user (line 218).
AuthFailure(db, token) ==
    IF ~token.valid THEN credentials_exception
    ELSE IF token.sub = NoSub THEN credentials_exception
    ELSE IF get_user(db, token.sub) = None THEN credentials_exception
    ELSE no_exception

\* create_access_token: a signed token carrying the claim sub, which
\* jwt.decode accepts until it expires.
create_access_token(sub) == [sub |-> sub, valid |-> TRUE]

\* [Item(**i) for i in items_db] drops the last item.
ListOf_DropsLast(db) == SubSeq(db, 1, Len(db) - 1)

\* [Model(**r) for r in db]: the listing of a table.
ListOf(db) == db

\* A response with a body: the token issued by login, the rows of a
\* listing, the detail of a credential error.
ResponseWith(op, status, user, arg, balance, body) ==
    [op |-> op, status |-> status, user |-> user, arg |-> arg,
     balance |-> balance, body |-> body]

Response(op, status, user, arg, balance) ==
    ResponseWith(op, status, user, arg, balance, <<>>)

\* A handler thread: its position (pc), the request it serves (op and
\* arguments), its locals (user: current_user, target: the user found by
\* get_user_by_id, tmp: a value computed and not yet stored, new_id), the
\* status it answered with, and bal0, current_user["balance"] as it was
\* when the request was authenticated.
IdleThread ==
    [pc |-> "idle", op |-> "none", status |-> 0, user |-> None, user_id |-> 0,
     username |-> NoSub, password |-> NoSub, amount |-> 0, type |-> "none", item_id |-> None,
     target |-> None, tmp |-> 0, new_balance |-> 0, new_id |-> 0, bal0 |-> 0]

\* ------------------------------------------------------------ initial state

Init ==
    /\ users_db = <<>>
    /\ items_db = seed_data
    /\ transactions_db = <<>>
    /\ resp = Response("none", 0, None, 0, 0)
    /\ thr = [t \in Threads |-> IdleThread]
    /\ nreq = 0

\* ------------------------------------------------------------ requests served one at a time

CanRequest == Len(transactions_db) < MaxTx

\* POST /auth/register: register_user -> create_user_record
register_user(username, password) ==
    /\ CanRequest
    /\ IF get_user(users_db, username) # None
       THEN /\ resp' = Response("register", HTTP_400_BAD_REQUEST, None, 0, 0)
            /\ UNCHANGED <<users_db, transactions_db>>
       ELSE LET user_id == NewUserId(users_db)
            IN  /\ users_db' = Append(users_db, NewUser(user_id, username, password))
                /\ transactions_db' =
                       record_transaction(transactions_db, user_id,
                                          INITIAL_BALANCE, "REGISTER", None)
                /\ resp' = Response("register", HTTP_201_CREATED,
                                    Len(users_db) + 1, 0, INITIAL_BALANCE)
    /\ UNCHANGED <<items_db, thr, nreq>>

\* POST /wallet/spend: get_current_user, then spend_money
spend_money(token, amount) ==
    /\ CanRequest
    /\ LET current_user == get_current_user(users_db, token)
       IN  IF current_user = None
           THEN /\ resp' = Response("spend", HTTP_401_UNAUTHORIZED, None, amount, 0)
                /\ UNCHANGED <<users_db, transactions_db>>
           ELSE LET user_id == users_db[current_user].id
                    r == update_user_balance(users_db, user_id, amount, "SUBTRACT")
                IN  /\ users_db' = r.db
                    /\ IF r.status # HTTP_200_OK
                       THEN /\ resp' = Response("spend", r.status, current_user, amount, 0)
                            /\ UNCHANGED transactions_db
                       ELSE /\ transactions_db' =
                                   record_transaction(transactions_db, user_id,
                                                      amount, "SPEND", None)
                            /\ resp' = Response("spend", HTTP_200_OK, current_user,
                                                amount, r.balance)
    /\ UNCHANGED <<items_db, thr, nreq>>

\* POST /items/buy/{item_id}: get_current_user, then buy_item
buy_item(token, item_id) ==
    /\ CanRequest
    /\ LET current_user == get_current_user(users_db, token)
           item == find_item(items_db, item_id)
       IN  IF current_user = None
           THEN /\ resp' = Response("buy", HTTP_401_UNAUTHORIZED, None, item_id, 0)
                /\ UNCHANGED <<users_db, transactions_db>>
           ELSE IF item = None
           THEN /\ resp' = Response("buy", HTTP_404_NOT_FOUND, current_user, item_id, 0)
                /\ UNCHANGED <<users_db, transactions_db>>
           ELSE LET user_id == users_db[current_user].id
                    item_price == items_db[item].price
                    r == update_user_balance(users_db, user_id, item_price, "SUBTRACT")
                IN  /\ users_db' = r.db
                    /\ IF r.status # HTTP_200_OK
                       THEN /\ resp' = Response("buy", r.status, current_user, item_id, 0)
                            /\ UNCHANGED transactions_db
                       ELSE /\ transactions_db' =
                                   record_transaction(transactions_db, user_id,
                                                      item_price, "BUY", item_id)
                            /\ resp' = Response("buy", HTTP_200_OK, current_user,
                                                item_id, r.balance)
    /\ UNCHANGED <<items_db, thr, nreq>>

\* POST /auth/login
login_for_access_token(username, password) ==
    /\ CanRequest
    /\ LET user == get_user(users_db, username)
       IN  IF user = None
              \/ ~verify_password(password, users_db[user].hashed_password)
           THEN resp' = Response("login", HTTP_401_UNAUTHORIZED, None, 0, 0)
           ELSE resp' = ResponseWith("login", HTTP_200_OK, user, 0, 0,
                            <<create_access_token(users_db[user].username)>>)
    /\ UNCHANGED <<stores, thr, nreq>>

\* GET /wallet/balance: get_current_user, then get_balance
get_balance(token) ==
    /\ CanRequest
    /\ LET exc == AuthFailure(users_db, token)
           current_user == get_current_user(users_db, token)
       IN  IF exc # no_exception
           THEN resp' = ResponseWith("balance", exc.status, None, 0, 0,
                                     <<exc.detail>>)
           ELSE resp' = Response("balance", HTTP_200_OK, current_user, 0,
                                 users_db[current_user].balance)
    /\ UNCHANGED <<stores, thr, nreq>>

\* GET /items/list
list_items ==
    /\ CanRequest
    /\ resp' = ResponseWith("items", HTTP_200_OK, None, 0, 0, ListOf(items_db))
    /\ UNCHANGED <<stores, thr, nreq>>

\* GET /transactions
get_all_transactions ==
    /\ CanRequest
    /\ resp' = ResponseWith("transactions", HTTP_200_OK, None, 0, 0,
                            ListOf(transactions_db))
    /\ UNCHANGED <<stores, thr, nreq>>

\* GET /users
get_all_users ==
    /\ CanRequest
    /\ resp' = ResponseWith("users", HTTP_200_OK, None, 0, 0, ListOf(users_db))
    /\ UNCHANGED <<stores, thr, nreq>>

Register == \E u \in Usernames, p \in Passwords : register_user(u, p)

Login == \E u \in Usernames, p \in LoginPasswords : login_for_access_token(u, p)

Balance == \E k \in Tokens : get_balance(k)

Spend == \E k \in Tokens, a \in Amounts : spend_money(k, a)

Buy == \E k \in Tokens, i \in ItemIds : buy_item(k, i)

Next ==
    \/ Register
    \/ Login
    \/ Balance
    \/ Spend
    \/ Buy
    \/ list_items
    \/ get_all_transactions
    \/ get_all_users

Spec == Init /\ [][Next]_vars

\* ------------------------------------------------------------ requests served by concurrent handler threads
\* The handlers are plain def functions, which FastAPI runs in a pool of
\* worker threads over the shared lists; nothing in the program takes a
\* lock.  A thread can be preempted between any two reads or writes of
\* shared data, so each such access is a step of its own.

Free(t) == thr[t].pc \in {"idle", "done"} /\ nreq < MaxReqs

At(t, pc) == thr[t].pc = pc

\* The thread's request has ended with this status.
Finish(t, status) ==
    [thr EXCEPT ![t].pc = "done", ![t].status = status]

\* register_user, line 137: the duplicate-username check
TRegisterStart(t, username, password) ==
    /\ Free(t)
    /\ nreq' = nreq + 1
    /\ LET r == [IdleThread EXCEPT !.op = "register", !.username = username,
                                   !.password = password]
       IN  thr' = [thr EXCEPT ![t] =
                IF get_user(users_db, username) # None
                THEN [r EXCEPT !.pc = "done", !.status = HTTP_400_BAD_REQUEST]
                ELSE [r EXCEPT !.pc = "reg_id"]]
    /\ UNCHANGED <<stores, resp>>

\* create_user_record, line 144: user_id = get_next_id(users_db)
TRegisterId(t) ==
    /\ At(t, "reg_id")
    /\ thr' = [thr EXCEPT ![t].pc = "reg_append",
                          ![t].user_id = NewUserId(users_db)]
    /\ UNCHANGED <<stores, resp, nreq>>

\* create_user_record, line 152: users_db.append(new_user)
TRegisterAppend(t) ==
    /\ At(t, "reg_append")
    /\ users_db' = Append(users_db,
                          NewUser(thr[t].user_id, thr[t].username, thr[t].password))
    /\ thr' = [thr EXCEPT ![t].pc = "tx_id", ![t].user = Len(users_db) + 1,
                          ![t].amount = INITIAL_BALANCE, ![t].type = "REGISTER",
                          ![t].item_id = None, ![t].password = NoSub,
                          ![t].new_balance = INITIAL_BALANCE]
    /\ UNCHANGED <<items_db, transactions_db, resp, nreq>>

\* get_current_user, then spend_money line 278: user_id = current_user["id"]
TSpendStart(t, token, amount) ==
    /\ Free(t)
    /\ nreq' = nreq + 1
    /\ LET current_user == get_current_user(users_db, token)
           r == [IdleThread EXCEPT !.op = "spend", !.amount = amount,
                                   !.type = "SPEND", !.item_id = None]
       IN  thr' = [thr EXCEPT ![t] =
                IF current_user = None
                THEN [r EXCEPT !.pc = "done", !.status = HTTP_401_UNAUTHORIZED]
                ELSE [r EXCEPT !.pc = "ub_find", !.user = current_user,
                               !.user_id = users_db[current_user].id,
                               !.bal0 = users_db[current_user].balance]]
    /\ UNCHANGED <<stores, resp>>

\* get_current_user, then buy_item lines 313-320: the item lookup
TBuyStart(t, token, item_id) ==
    /\ Free(t)
    /\ nreq' = nreq + 1
    /\ LET current_user == get_current_user(users_db, token)
           item == find_item(items_db, item_id)
           r == [IdleThread EXCEPT !.op = "buy", !.type = "BUY",
                                   !.item_id = item_id]
       IN  thr' = [thr EXCEPT ![t] =
                IF current_user = None
                THEN [r EXCEPT !.pc = "done", !.status = HTTP_401_UNAUTHORIZED]
                ELSE IF item = None
                THEN [r EXCEPT !.pc = "done", !.status = HTTP_404_NOT_FOUND,
                               !.user = current_user]
                ELSE [r EXCEPT !.pc = "ub_find", !.user = current_user,
                               !.user_id = users_db[current_user].id,
                               !.amount = items_db[item].price,
                               !.bal0 = users_db[current_user].balance]]
    /\ UNCHANGED <<stores, resp>>

\* update_user_balance, lines 182-184: user = get_user_by_id(user_id)
TBalanceFind(t) ==
    /\ At(t, "ub_find")
    /\ LET user == get_user_by_id(users_db, thr[t].user_id)
       IN  thr' = IF user = None
                  THEN Finish(t, HTTP_404_NOT_FOUND)
                  ELSE [thr EXCEPT ![t].pc = "ub_check", ![t].target = user]
    /\ UNCHANGED <<stores, resp, nreq>>

\* update_user_balance, lines 187-188: the sufficient-funds check
TBalanceCheck(t) ==
    /\ At(t, "ub_check")
    /\ thr' = IF InsufficientFunds(users_db[thr[t].target].balance, thr[t].amount)
              THEN Finish(t, HTTP_400_BAD_REQUEST)
              ELSE [thr EXCEPT ![t].pc = "ub_load"]
    /\ UNCHANGED <<stores, resp, nreq>>

\* update_user_balance, line 189: user['balance'] - amount is computed
TBalanceLoad(t) ==
    /\ At(t, "ub_load")
    /\ thr' = [thr EXCEPT ![t].pc = "ub_store",
                          ![t].tmp = ApplyOperation(users_db[thr[t].target].balance,
                                                    thr[t].amount, "SUBTRACT")]
    /\ UNCHANGED <<stores, resp, nreq>>

\* update_user_balance, line 189: the difference is stored
TBalanceStore(t) ==
    /\ At(t, "ub_store")
    /\ users_db' = [users_db EXCEPT ![thr[t].target].balance = thr[t].tmp]
    /\ thr' = [thr EXCEPT ![t].pc = "ub_rload", ![t].tmp = 0]
    /\ UNCHANGED <<items_db, transactions_db, resp, nreq>>

\* update_user_balance, line 194: round(user['balance'], 2) is computed
TRoundLoad(t) ==
    /\ At(t, "ub_rload")
    /\ thr' = [thr EXCEPT ![t].pc = "ub_rstore",
                          ![t].tmp = Round2(users_db[thr[t].target].balance)]
    /\ UNCHANGED <<stores, resp, nreq>>

\* update_user_balance, line 194: the rounded balance is stored
TRoundStore(t) ==
    /\ At(t, "ub_rstore")
    /\ users_db' = [users_db EXCEPT ![thr[t].target].balance = thr[t].tmp]
    /\ thr' = [thr EXCEPT ![t].pc = "ub_ret", ![t].tmp = 0]
    /\ UNCHANGED <<items_db, transactions_db, resp, nreq>>

\* update_user_balance, line 196: return user['balance']
TBalanceReturn(t) ==
    /\ At(t, "ub_ret")
    /\ thr' = [thr EXCEPT ![t].pc = "tx_id",
                          ![t].new_balance = users_db[thr[t].target].balance]
    /\ UNCHANGED <<stores, resp, nreq>>

\* record_transaction, line 167: transaction_id = get_next_id(transactions_db)
TRecordId(t) ==
    /\ At(t, "tx_id")
    /\ thr' = [thr EXCEPT ![t].pc = "tx_append",
                          ![t].new_id = NewTransactionId(transactions_db)]
    /\ UNCHANGED <<stores, resp, nreq>>

\* record_transaction, line 177: transactions_db.append(new_transaction);
\* the handler then returns its response.
TRecordAppend(t) ==
    /\ At(t, "tx_append")
    /\ transactions_db' =
           LedgerAppend(transactions_db,
                  NewTransaction(thr[t].new_id, thr[t].user_id, thr[t].amount,
                                 thr[t].type, thr[t].item_id))
    /\ thr' = [thr EXCEPT ![t].pc = "done", ![t].new_id = 0, ![t].target = None,
                          ![t].status = IF thr[t].op = "register"
                                        THEN HTTP_201_CREATED ELSE HTTP_200_OK]
    /\ UNCHANGED <<users_db, items_db, resp, nreq>>

TStartRegister == \E t \in Threads, u \in Usernames, p \in Passwords : TRegisterStart(t, u, p)

TStartSpend == \E t \in Threads, k \in Tokens, a \in Amounts : TSpendStart(t, k, a)

TStartBuy == \E t \in Threads, k \in Tokens, i \in ItemIds : TBuyStart(t, k, i)

TStep ==
    \E t \in Threads :
        \/ TRegisterId(t)
        \/ TRegisterAppend(t)
        \/ TBalanceFind(t)
        \/ TBalanceCheck(t)
        \/ TBalanceLoad(t)
        \/ TBalanceStore(t)
        \/ TRoundLoad(t)
        \/ TRoundStore(t)
        \/ TBalanceReturn(t)
        \/ TRecordId(t)
        \/ TRecordAppend(t)

ThreadNext == TStartRegister \/ TStartSpend \/ TStartBuy \/ TStep

ThreadSpec == Init /\ [][ThreadNext]_vars

\* The same threads, serving fewer requests.
SmallThreadNext ==
    \/ TStartRegister /\ nreq' <= MaxStepReqs
    \/ TStartSpend /\ nreq' <= MaxStepReqs
    \/ TStartBuy /\ nreq' <= MaxStepReqs
    \/ TStep

SmallThreadSpec == Init /\ [][SmallThreadNext]_vars

\* ------------------------------------------------------------ properties

UserIndexes == DOMAIN users_db

LedgerIndexes == DOMAIN transactions_db

\* The ledger entries of one type that carry this user id.
EntriesOf(user_id, types) ==
    {k \in LedgerIndexes : /\ transactions_db[k].user_id = user_id
                           /\ transactions_db[k].type \in types}

\* C1: with requests served one at a time, every user's balance is >= 0 in
\* every reachable state, whatever the spend amounts and item ids.
C1_BalanceNeverNegative ==
    \A i \in UserIndexes : users_db[i].balance >= 0

\* A wallet has been emptied and a further debit has just been refused.
C1_Witness ==
    /\ resp.op \in {"spend", "buy"}
    /\ resp.status = HTTP_400_BAD_REQUEST
    /\ resp.user # None
    /\ users_db[resp.user].balance = 0

\* C2: with spend/buy requests running in concurrent handler threads, no
\* interleaving of the steps of update_user_balance drives a balance below 0
\* (the check and the mutation of one user's balance are serialized).
\* Stated on the states in which every started request has been answered,
\* so that a balance below 0 is a stored result and not a value in passing.
C2_NoInterleavingOverdraws ==
    (\A t \in Threads : thr[t].pc \in {"idle", "done"})
        => \A i \in UserIndexes : ~(users_db[i].balance < 0)

\* C3: N concurrent spends of amount B, all launched against a balance of
\* exactly N*B, end with N successes, a final balance of 0 and N SPEND
\* entries of amount B.
C3_ConcurrentSpendsAllApplied ==
    \A i \in UserIndexes, b \in Amounts :
        (\A t \in Threads :
            /\ thr[t].pc = "done"
            /\ thr[t].op = "spend"
            /\ thr[t].user = i
            /\ thr[t].amount = b
            /\ thr[t].bal0 = Cardinality(Threads) * b)
        => /\ \A t \in Threads : thr[t].status = HTTP_200_OK
           /\ users_db[i].balance = 0
           /\ Cardinality({k \in EntriesOf(users_db[i].id, {"SPEND"}) :
                               transactions_db[k].amount = b})
                  = Cardinality(Threads)

\* The request answered by response r was a spend or a buy.
IsDebit(r) == r.op \in {"spend", "buy"}

\* The amount response r's request asked to debit: the spend amount, or the
\* price of the item bought.
RequestedAmount(r) ==
    IF r.op = "spend" THEN r.arg
    ELSE items_db[find_item(items_db, r.arg)].price

EntryType(r) == IF r.op = "spend" THEN "SPEND" ELSE "BUY"

LastEntry(tx) == tx[Len(tx)]

AppendsOne(tx, txNext) ==
    /\ Len(txNext) = Len(tx) + 1
    /\ SubSeq(txNext, 1, Len(tx)) = tx

\* One request served: an accepted debit appends one entry for the acting
\* user with the requested amount and the right type, a rejected one appends
\* nothing.  With exact, the entry's amount is also what left the balance,
\* and a balance falls exactly when a SPEND/BUY entry is appended; without,
\* the balance becomes the rounded difference.
LedgerStep(exact) ==
    IsDebit(resp') =>
        IF resp'.status = HTTP_200_OK
        THEN LET u == resp'.user
                 e == LastEntry(transactions_db')
             IN  /\ AppendsOne(transactions_db, transactions_db')
                 /\ e.user_id = users_db[u].id
                 /\ e.type = EntryType(resp')
                 /\ e.amount = RequestedAmount(resp')
                 /\ IF exact
                    THEN /\ e.amount = users_db[u].balance - users_db'[u].balance
                         /\ users_db'[u].balance < users_db[u].balance
                    ELSE users_db'[u].balance = Round2(users_db[u].balance - e.amount)
        ELSE /\ transactions_db' = transactions_db
             /\ \A i \in UserIndexes : users_db'[i].balance >= users_db[i].balance

\* C4 (as amended): every accepted spend or buy appends exactly one entry
\* whose user_id is the acting user, whose amount is the requested amount
\* (spend amount or item price) and whose type is SPEND or BUY; the balance
\* becomes round2(balance - amount); every rejected spend or buy appends no
\* entry and lowers no balance.
C4_AcceptedDebitLogsOneEntry == [][LedgerStep(FALSE)]_vars

\* C4 (as claimed): the appended entry's amount equals the amount deducted,
\* so balance decreases and SPEND/BUY entries correspond one to one.
C4_EntryAmountIsDeducted == [][LedgerStep(TRUE)]_vars

\* A buy has just been accepted and logged after an earlier spend.
C4_Witness ==
    /\ resp.op = "buy"
    /\ resp.status = HTTP_200_OK
    /\ LastEntry(transactions_db).type = "BUY"
    /\ \E k \in LedgerIndexes : transactions_db[k].type = "SPEND"

\* C5: a failed register (username taken), spend (amount above the balance)
\* or buy (unknown item, or price above the balance) answers with an error
\* and leaves users_db, transactions_db and items_db as they were.
C5_FailureChangesNoStore ==
    [][ (/\ resp'.op \in {"register", "spend", "buy"}
         /\ resp'.status \in {HTTP_400_BAD_REQUEST, HTTP_404_NOT_FOUND})
        => stores' = stores ]_vars

\* A buy has just been refused for lack of funds by a user who has money.
C5_Witness ==
    /\ resp.op = "buy"
    /\ resp.status = HTTP_400_BAD_REQUEST
    /\ resp.user # None
    /\ users_db[resp.user].balance > 0

\* C6: a successful registration creates a user whose balance is the initial
\* grant and appends one REGISTER entry with that user's id and the grant as
\* amount; in every state each user has exactly one REGISTER entry.
C6_RegistrationGrant ==
    /\ \A i \in UserIndexes :
           /\ Cardinality(EntriesOf(users_db[i].id, {"REGISTER"})) = 1
           /\ \A k \in EntriesOf(users_db[i].id, {"REGISTER"}) :
                  transactions_db[k].amount = INITIAL_BALANCE
    /\ Cardinality({k \in LedgerIndexes : transactions_db[k].type = "REGISTER"})
           = Len(users_db)
    /\ (resp.op = "register" /\ resp.status = HTTP_201_CREATED) =>
           /\ resp.user = Len(users_db)
           /\ users_db[resp.user].balance = INITIAL_BALANCE
           /\ LastEntry(transactions_db).type = "REGISTER"
           /\ LastEntry(transactions_db).user_id = users_db[resp.user].id
           /\ LastEntry(transactions_db).amount = INITIAL_BALANCE

\* A second user has just registered after the first one spent money.
C6_Witness ==
    /\ resp.op = "register"
    /\ resp.status = HTTP_201_CREATED
    /\ Len(users_db) = 2
    /\ users_db[1].balance < INITIAL_BALANCE

\* C7: balance mutation and ledger append are one unit: in no state that a
\* concurrently served GET /users or GET /transactions can read is a user in
\* users_db without its REGISTER entry, or a balance lowered by a spend/buy
\* whose SPEND/BUY entry is not in the ledger.
C7_MutationAndAppendAreOneUnit ==
    \A i \in UserIndexes :
        /\ EntriesOf(users_db[i].id, {"REGISTER"}) # {}
        /\ users_db[i].balance < INITIAL_BALANCE
               => EntriesOf(users_db[i].id, {"SPEND", "BUY"}) # {}

StrictlyIncreasingIds(db) ==
    /\ \A i \in DOMAIN db : db[i].id >= 1
    /\ \A i, j \in DOMAIN db : i < j => db[i].id < db[j].id

UniqueIds(db) ==
    \A i, j \in DOMAIN db : i # j => db[i].id # db[j].id

\* C8: with requests served one at a time, the ids of users_db and those of
\* transactions_db are positive and strictly increase in insertion order:
\* each record's id is greater than the id of every record inserted before.
C8_IdsStrictlyIncrease ==
    /\ StrictlyIncreasingIds(users_db)
    /\ StrictlyIncreasingIds(transactions_db)

\* Two users and a ledger as long as the bound allows.
C8_Witness ==
    /\ Len(users_db) = 2
    /\ Len(transactions_db) = MaxTx

\* C9: under any interleaving of concurrent requests, no two records of the
\* same table receive the same id.
C9_NoDuplicateIds ==
    /\ UniqueIds(users_db)
    /\ UniqueIds(transactions_db)

\* One spend request served: it is refused with 400 exactly when the amount
\* exceeds the balance; otherwise the stored and returned balance is
\* result(b, a) and one SPEND entry of amount a is appended.
SpendStep(result(_, _)) ==
    (resp'.op = "spend" /\ resp'.user # None) =>
        LET u == resp'.user
            b == users_db[u].balance
            a == resp'.arg
        IN  /\ resp'.status \in {HTTP_200_OK, HTTP_400_BAD_REQUEST}
            /\ resp'.status = HTTP_400_BAD_REQUEST <=> a > b
            /\ resp'.status = HTTP_200_OK =>
                   /\ resp'.balance = result(b, a)
                   /\ users_db'[u].balance = result(b, a)
                   /\ AppendsOne(transactions_db, transactions_db')
                   /\ LastEntry(transactions_db').type = "SPEND"
                   /\ LastEntry(transactions_db').amount = a
                   /\ LastEntry(transactions_db').user_id = users_db[u].id

ExactDifference(b, a) == b - a

RoundedDifference(b, a) == Round2(b - a)

\* C10 (as amended): a spend of a > 0 by a user with balance b fails with
\* 400 exactly when a > b; otherwise (a = b included) it succeeds, the
\* returned and stored balance is round2(b - a), which is b - a when a is a
\* whole number of hundredths, and one SPEND entry of amount a is appended.
C10_SpendContract == [][SpendStep(RoundedDifference)]_vars

\* C10 (as claimed): on success the returned and stored balance is b - a.
C10_SpendLeavesExactDifference == [][SpendStep(ExactDifference)]_vars

\* A spend of 0.006 has just been accepted: the balance fell by 0.01.
C10_Witness ==
    /\ resp.op = "spend"
    /\ resp.status = HTTP_200_OK
    /\ resp.arg = 6
    /\ resp.balance = INITIAL_BALANCE - 10

\* One buy request by an authenticated user served: 404 for an item id
\* that is not in the catalog, whatever the balance; 400 when the price
\* exceeds the balance; otherwise the stored and returned balance is the
\* balance less the price and one BUY entry with the price and the item id
\* is appended.
BuyStep ==
    (resp'.op = "buy" /\ resp'.user # None) =>
        LET u == resp'.user
            b == users_db[u].balance
            i == resp'.arg
            known == {k \in DOMAIN items_db : items_db[k].id = i}
        IN  IF known = {}
            THEN resp'.status = HTTP_404_NOT_FOUND /\ stores' = stores
            ELSE \A k \in known :
                    LET p == items_db[k].price
                    IN  IF p > b
                        THEN /\ resp'.status = HTTP_400_BAD_REQUEST
                             /\ stores' = stores
                        ELSE /\ resp'.status = HTTP_200_OK
                             /\ resp'.balance = b - p
                             /\ users_db'[u].balance = b - p
                             /\ AppendsOne(transactions_db, transactions_db')
                             /\ LastEntry(transactions_db').type = "BUY"
                             /\ LastEntry(transactions_db').amount = p
                             /\ LastEntry(transactions_db').item_id = i
                             /\ LastEntry(transactions_db').user_id = users_db[u].id

\* C11: a buy of item id i by an authenticated user with balance b fails
\* with 404 when i is not in the catalog, whatever b is; fails with 400 when
\* the price p exceeds b; otherwise the stored and returned balance is b - p
\* and exactly one BUY entry with amount p and item_id i is appended.
C11_BuyContract == [][BuyStep]_vars

\* Item 2 (25.50) has just been bought from a fresh wallet: 74.50 is left.
C11_Witness ==
    /\ resp.op = "buy"
    /\ resp.status = HTTP_200_OK
    /\ resp.arg = 2
    /\ resp.balance = 74500
    /\ LastEntry(transactions_db).item_id = 2

UniqueUsernames(db) ==
    \A i, j \in DOMAIN db : i # j => db[i].username # db[j].username

\* One register request served: it is answered 201 only for a username that
\* no record carried, and then appends the record; otherwise it is answered
\* 400 and users_db is left alone.
RegisterStep ==
    resp'.op = "register" =>
        \/ /\ resp'.status = HTTP_201_CREATED
           /\ Len(users_db') = Len(users_db) + 1
           /\ SubSeq(users_db', 1, Len(users_db)) = users_db
           /\ get_user(users_db, users_db'[Len(users_db')].username) = None
        \/ /\ resp'.status = HTTP_400_BAD_REQUEST
           /\ users_db' = users_db
           /\ users_db # <<>>

\* C12: with requests served one at a time, registering a username that
\* already exists fails with 400, so that in every state reached no two
\* records of users_db carry the same username.
C12_UsernamesUnique == [][RegisterStep /\ UniqueUsernames(users_db')]_vars

\* A registration has just been refused while both usernames are taken.
C12_Witness ==
    /\ resp.op = "register"
    /\ resp.status = HTTP_400_BAD_REQUEST
    /\ Len(users_db) = 2

IsPrefix(s, t) ==
    /\ Len(s) <= Len(t)
    /\ SubSeq(t, 1, Len(s)) = s

\* C13: across any step of any request the old ledger is a prefix of the
\* new one (no entry removed, reordered or edited), and no user record is
\* removed from users_db or changes its id, username or password hash.
C13_LedgerAppendOnly ==
    [][ /\ IsPrefix(transactions_db, transactions_db')
        /\ Len(users_db) <= Len(users_db')
        /\ \A i \in DOMAIN users_db :
               /\ users_db'[i].id = users_db[i].id
               /\ users_db'[i].username = users_db[i].username
               /\ users_db'[i].hashed_password = users_db[i].hashed_password
      ]_vars

\* A debit has been logged behind the REGISTER entry of a user whose record
\* is still in place with a lowered balance.
C13_Witness ==
    /\ Len(transactions_db) = 2
    /\ transactions_db[1].type = "REGISTER"
    /\ transactions_db[2].type \in {"SPEND", "BUY"}
    /\ Len(users_db) = 1
    /\ users_db[1].balance < INITIAL_BALANCE

\* The token is one jwt.decode rejects.
Undecodable(k) == ~k.valid

\* The token is valid and its username claim resolves to no user.
UnknownUser(db, k) == k.valid /\ k.sub # NoSub /\ get_user(db, k.sub) = None

\* C14 (as amended): resolving a bearer credential fails with one and the
\* same error, 401 "Could not validate credentials", when the token is
\* malformed, expired or unparseable and when it is valid but its username
\* claim resolves to no user; a valid token of a known user resolves to
\* that user.
C14_OneCredentialError ==
    [][ \A k \in Tokens :
            get_balance(k) =>
                IF Undecodable(k) \/ k.sub = NoSub \/ UnknownUser(users_db, k)
                THEN /\ resp'.status = HTTP_401_UNAUTHORIZED
                     /\ resp'.body = <<"Could not validate credentials">>
                ELSE /\ resp'.status = HTTP_200_OK
                     /\ resp'.user = get_user(users_db, k.sub)
      ]_vars

\* C14 (as claimed): the two failures are different errors, so no answer to
\* an undecodable token is also the answer to a valid token of an unknown
\* user.
C14_FailuresDistinguished ==
    [][ \A k1, k2 \in Tokens :
            (Undecodable(k1) /\ UnknownUser(users_db, k2))
                => ~(get_balance(k1) /\ get_balance(k2))
      ]_vars

\* A credential has just been refused while alice is registered and bob,
\* whom a valid token can still name, is not.
C14_Witness ==
    /\ resp.op = "balance"
    /\ resp.status = HTTP_401_UNAUTHORIZED
    /\ get_user(users_db, "alice") # None
    /\ get_user(users_db, "bob") = None

\* C15: login issues a bearer token only when the username exists and the
\* password matches that user's stored hash; with an unknown username or a
\* wrong password it answers 401 and issues no token; login changes no
\* store.
C15_LoginContract ==
    [][ \A u \in Usernames, p \in LoginPasswords :
            login_for_access_token(u, p) =>
                LET matches ==
                        \E i \in DOMAIN users_db :
                            /\ users_db[i].username = u
                            /\ users_db[i].hashed_password = get_password_hash(p)
                IN  /\ stores' = stores
                    /\ IF matches
                       THEN /\ resp'.status = HTTP_200_OK
                            /\ resp'.body = <<[sub |-> u, valid |-> TRUE]>>
                       ELSE /\ resp'.status = HTTP_401_UNAUTHORIZED
                            /\ resp'.body = <<>>
      ]_vars

\* A login has just been refused although both usernames are registered:
\* the password was wrong.
C15_Witness ==
    /\ resp.op = "login"
    /\ resp.status = HTTP_401_UNAUTHORIZED
    /\ Len(users_db) = 2

\* C16: the catalog is what seed_data made it in every state, whatever
\* requests were served, and every item listing returns exactly it, so any
\* two listings are identical.
C16_CatalogImmutable ==
    /\ items_db = seed_data
    /\ resp.op = "items" => resp.body = seed_data

\* The items have just been listed after a purchase.
C16_Witness ==
    /\ resp.op = "items"
    /\ \E k \in LedgerIndexes : transactions_db[k].type = "BUY"

\* The ids of the items in the catalog.
CatalogIds == {items_db[i].id : i \in DOMAIN items_db}

\* C17: in every reachable state every ledger entry has a type in
\* {REGISTER, SPEND, BUY}, carries an item_id exactly when its type is BUY,
\* and a carried item_id is the id of an item in the catalog.
C17_EntriesWellFormed ==
    \A k \in LedgerIndexes :
        LET e == transactions_db[k]
        IN  /\ e.type \in {"REGISTER", "SPEND", "BUY"}
            /\ (e.item_id # None) <=> (e.type = "BUY")
            /\ e.item_id # None => e.item_id \in CatalogIds

\* The ledger holds a REGISTER entry and a BUY entry.
C17_Witness ==
    /\ \E k \in LedgerIndexes : transactions_db[k].type = "REGISTER"
    /\ \E k \in LedgerIndexes : transactions_db[k].type = "BUY"

\* The sum of the amounts of the ledger entries at these positions.
RECURSIVE SumAmounts(_)
SumAmounts(K) ==
    IF K = {} THEN 0
    ELSE LET k == CHOOSE x \in K : TRUE
         IN  transactions_db[k].amount + SumAmounts(K \ {k})

\* The debit entries (SPEND and BUY) of the user record at position i.
DebitsOf(i) == EntriesOf(users_db[i].id, {"SPEND", "BUY"})

\* Every debit of the user record at position i is a whole number of cents.
WholeCents(i) ==
    \A k \in DebitsOf(i) : transactions_db[k].amount % 10 = 0

\* Balance = initial grant - sum of the user's SPEND and BUY entries.
Conserved(i) ==
    users_db[i].balance = INITIAL_BALANCE - SumAmounts(DebitsOf(i))

\* No request raises the balance of a registered user.
NeverIncreased ==
    \A i \in UserIndexes : users_db'[i].balance <= users_db[i].balance

\* C18: with requests served one at a time and amounts in whole cents,
\* every user's balance equals the initial grant minus the sum of the
\* amounts of that user's SPEND and BUY ledger entries, and no request
\* increases a balance after registration.
C18_LedgerConservation ==
    /\ [](\A i \in UserIndexes : WholeCents(i) => Conserved(i))
    /\ [][NeverIncreased]_vars

\* A user has made at least two debits, all in whole cents.
C18_Witness ==
    \E i \in UserIndexes :
        /\ Cardinality(DebitsOf(i)) >= 2
        /\ WholeCents(i)
        /\ users_db[i].balance < INITIAL_BALANCE

\* C19: a spend or buy authenticated as user u changes the balance of u's
\* own record only, in every execution, registrations running concurrently
\* included: whenever a step changes the balance of a record, the step is
\* taken by a request whose authenticated user is that record.
C19_DebitTouchesOnlyOwnRecord ==
    [][ \A i \in UserIndexes :
            users_db'[i].balance # users_db[i].balance =>
                \E t \in Threads : /\ thr'[t] # thr[t]
                                   /\ thr[t].op \in {"spend", "buy"}
                                   /\ thr[t].user = i
      ]_vars

\* The user records that carry this username.
RecordsOf(username) ==
    {i \in UserIndexes : users_db[i].username = username}

\* The REGISTER entries of the ledger filed under the ids of these records.
GrantsOf(username) ==
    {k \in LedgerIndexes :
        /\ transactions_db[k].type = "REGISTER"
        /\ \E i \in RecordsOf(username) :
               transactions_db[k].user_id = users_db[i].id}

\* C20: under any interleaving of concurrent register requests carrying the
\* same username at most one succeeds: users_db never holds two records with
\* that username, and at most one REGISTER entry is created for it.
C20_ConcurrentRegisterOneWins ==
    \A u \in Usernames :
        /\ Cardinality(RecordsOf(u)) <= 1
        /\ Cardinality(GrantsOf(u)) <= 1

====
